---------------------------- MODULE Spec2Model ----------------------------
(***************************************************************************)
(* A model of custom_components/creality_lan/ws.py: the CrealityWS client   *)
(* (connection runner, receive loop, send loop, CFS probe and poller,       *)
(* async_stop) and its state store (_ingest, _num).                         *)
(*                                                                          *)
(* asyncio runs one task at a time and switches tasks only at an await, so  *)
(* every action below is one task step: the code a task runs between two    *)
(* suspension points.  Task.cancel() only requests a cancellation; the      *)
(* CancelledError is raised in the task at its next step (cancel_req).      *)
(***************************************************************************)
EXTENDS Integers, Sequences, FiniteSets, TLC

VARIABLES
    state,          \* self.state: the shared printer state
    cfs_supported,  \* self.cfs_supported: "None" | "True" | "False"
    session,        \* self._session: "None" | "open" | "closed"
    task,           \* self._task: where the _runner coroutine stands
    backoffs,       \* _runner's iterator: how many entries it has yielded
    ws,             \* self._ws: "None" | "open" | "closed"
    receiver,       \* the _recv_loop task of the current epoch
    sender,         \* the _send_loop task of the current epoch
    cfs_probe,      \* self._cfs_probe: [pc, attempts, polls]
    cfs_poller,     \* self._cfs_poller: the _loop task
    poller_start,   \* a _start_cfs_poller task was created and has not run
    out_queue,      \* self._out_queue
    cancel_req,     \* tasks whose cancel() was called and not yet delivered
    pending,        \* _runner: the tasks of `pending` not yet cancelled
    reaping,        \* _runner: the task awaited at line 164
    stop,           \* async_stop: "idle" | "await" | "returned" | "raised"
    last_ping,      \* _recv_loop's last_ping
    now,            \* time.time(), in seconds
    next_seq,       \* observer: enqueue number of the next envelope
    last_sent,      \* observer: enqueue number of the last envelope written
    slept,          \* observer: duration of the last backoff sleep
    fail_run,       \* observer: failures since the last established connection
    notify,         \* observer: the last listener notification
    last_body,      \* observer: the body of the last text frame or _ingest call
    n_ingest,       \* observer: _ingest calls so far (SpecIngest)
    model,          \* self.model
    mac,            \* self.mac
    unique_id,      \* self.unique_id
    native_value,   \* observer: [key, value, raised] of the last sensor read
    info,           \* observer: [n, status] of the async_fetch_info calls
    pings,          \* observer: [n, ok]: the pings made, and whether the last one went out
    pollers         \* observer: the poller tasks that exist and have not finished

vars == <<state, cfs_supported, session, task, backoffs, ws, receiver, sender,
          cfs_probe, cfs_poller, poller_start, out_queue, cancel_req, pending,
          reaping, stop, last_ping, now, next_seq, last_sent, slept, fail_run,
          notify, last_body, n_ingest, model, mac, unique_id, native_value, info,
          pings, pollers>>

conn_vars == <<session, task, backoffs, ws, receiver, sender, cfs_probe,
               cfs_poller, poller_start, out_queue, cancel_req, pending,
               reaping, stop, last_ping, next_seq, last_sent, slept, fail_run,
               notify, pings, pollers>>

\* The identity of the device and the value an entity last read.
entity_vars == <<model, mac, unique_id, native_value, info>>

---------------------------------------------------------------------------
(* Bounds of the model.                                                    *)

\* The clock stops advancing here.
MaxTime == 1
\* Envelopes are numbered up to here; later ones share the number MaxSeq + 1.
MaxSeq == 2
\* The queue holds at most this many envelopes (producers wait beyond it).
MaxQueue == 2
\* Messages ingested in one behaviour of SpecIngest.
MaxIngest == 2
\* Listeners registered with add_listener.
NumListeners == 2
\* Calls of async_fetch_info in one behaviour of SpecInfo.
MaxFetch == 3
\* The clock of SpecBeat stops here (seconds).
MaxClock == 22
\* Pings are counted up to here.
MaxPings == 2
\* Poller tasks are counted up to here.
MaxPollers == 2

---------------------------------------------------------------------------
(* Program constants.                                                      *)

HEARTBEAT_SEC == 10
RECONNECT_BACKOFF == <<1, 2, 5, 10, 20, 30>>
\* _probe_cfs_support: max_attempts = 5, and range(10) one-second polls.
max_attempts == 5
ProbePolls == 10
\* _start_cfs_poller._loop: asyncio.sleep(20)
PollerSleep == 20

---------------------------------------------------------------------------
(* Python values.  A value is a record [t, n, s, d]: its type tag, its     *)
(* number (a float is held in tenths), its characters (a str is a sequence  *)
(* of one-character strings) and its items (a dict is a set of <<key,       *)
(* number>> pairs).                                                         *)

PyNone == [t |-> "None", n |-> 0, s |-> <<>>, d |-> {}]
PyInt(i) == [t |-> "int", n |-> i, s |-> <<>>, d |-> {}]
PyFloat(tenths) == [t |-> "float", n |-> tenths, s |-> <<>>, d |-> {}]
PyStr(cs) == [t |-> "str", n |-> 0, s |-> cs, d |-> {}]
PyDict(items) == [t |-> "dict", n |-> 0, s |-> <<>>, d |-> items]
PyList(i) == [t |-> "list", n |-> i, s |-> <<>>, d |-> {}]

Digits == <<"0", "1", "2", "3", "4", "5", "6", "7", "8", "9">>

IsDigit(c) == \E i \in 1..10 : Digits[i] = c

DigitVal(c) == (CHOOSE i \in 1..10 : Digits[i] = c) - 1

AllDigits(cs) == Len(cs) > 0 /\ \A i \in 1..Len(cs) : IsDigit(cs[i])

RECURSIVE DigitsVal(_)
DigitsVal(cs) ==
    IF cs = <<>> THEN 0
    ELSE 10 * DigitsVal(SubSeq(cs, 1, Len(cs) - 1)) + DigitVal(cs[Len(cs)])

\* Truncation toward zero, as int() of a float does.
TruncTenths(tenths) ==
    IF tenths >= 0 THEN tenths \div 10 ELSE -((-tenths) \div 10)

\* float(x): [ok, v].  A str converts when it reads digits, digits ".",
\* digits "." digit or "." digit (the forms the model's characters can spell
\* exactly in tenths); None, a dict and a list raise TypeError.
ToFloat(x) ==
    CASE x.t = "float" -> [ok |-> TRUE, v |-> x]
      [] x.t = "int" -> [ok |-> TRUE, v |-> PyFloat(10 * x.n)]
      [] x.t = "str" ->
            LET cs == x.s
                dots == {i \in 1..Len(cs) : cs[i] = "."}
            IN  IF AllDigits(cs)
                THEN [ok |-> TRUE, v |-> PyFloat(10 * DigitsVal(cs))]
                ELSE IF Cardinality(dots) = 1
                THEN LET p == CHOOSE i \in dots : TRUE
                         ip == SubSeq(cs, 1, p - 1)
                         fp == SubSeq(cs, p + 1, Len(cs))
                     IN  IF /\ (ip = <<>> \/ AllDigits(ip))
                            /\ (fp = <<>> \/ (Len(fp) = 1 /\ IsDigit(fp[1])))
                            /\ ~(ip = <<>> /\ fp = <<>>)
                         THEN [ok |-> TRUE,
                               v |-> PyFloat(10 * DigitsVal(ip) + DigitsVal(fp))]
                         ELSE [ok |-> FALSE, v |-> PyNone]
                ELSE [ok |-> FALSE, v |-> PyNone]
      [] OTHER -> [ok |-> FALSE, v |-> PyNone]

\* int(x): [ok, v].  A float is truncated; a str converts only when it is all
\* digits; None, a dict and a list raise TypeError.
ToInt(x) ==
    CASE x.t = "int" -> [ok |-> TRUE, v |-> x]
      [] x.t = "float" -> [ok |-> TRUE, v |-> PyInt(TruncTenths(x.n))]
      [] x.t = "str" ->
            IF AllDigits(x.s)
            THEN [ok |-> TRUE, v |-> PyInt(DigitsVal(x.s))]
            ELSE [ok |-> FALSE, v |-> PyNone]
      [] OTHER -> [ok |-> FALSE, v |-> PyNone]

RECURSIVE IntChars(_)
IntChars(i) ==
    IF i < 0 THEN <<"-">> \o IntChars(-i)
    ELSE IF i < 10 THEN <<Digits[i + 1]>>
    ELSE IntChars(i \div 10) \o <<Digits[(i % 10) + 1]>>

\* str(x).  The characters of a container's repr are those of the empty one.
ToStr(x) ==
    CASE x.t = "str" -> x.s
      [] x.t = "int" -> IntChars(x.n)
      [] x.t = "float" ->
            (IF x.n < 0 THEN <<"-">> ELSE <<>>)
            \o IntChars((IF x.n < 0 THEN -x.n ELSE x.n) \div 10) \o <<".">>
            \o IntChars((IF x.n < 0 THEN -x.n ELSE x.n) % 10)
      [] x.t = "None" -> <<"N", "o", "n", "e">>
      [] x.t = "dict" -> <<"{", "}">>
      [] OTHER -> <<"[", "]">>

\* cs.split("/")[-1]
RECURSIVE LastComponent(_)
LastComponent(cs) ==
    IF cs = <<>> THEN <<>>
    ELSE IF cs[Len(cs)] = "/" THEN <<>>
    ELSE LastComponent(SubSeq(cs, 1, Len(cs) - 1)) \o <<cs[Len(cs)]>>

\* CrealityWS._num(x, default)
Num(x, default) ==
    IF ToFloat(x).ok THEN ToFloat(x).v
    ELSE IF ToInt(x).ok THEN ToInt(x).v
    ELSE default


---------------------------------------------------------------------------
(* The state store.                                                        *)

\* The keys _ingest copies into s["ctrol"].
CtrolKeys ==
    {"curFeedratePct", "fan", "modelFanPct", "auxiliaryFanPct", "caseFanPct",
     "lightSw", "fanAuxiliary", "fanCase"}

EmptyDict == [k \in {} |-> PyNone]

\* self.state as __init__ builds it.
InitState ==
    [timeStamp |-> -1,
     boxInfoTimeStamp |-> -1,
     online |-> FALSE,
     data |-> EmptyDict,
     err |-> PyDict({<<"errcode", 0>>, <<"key", 0>>, <<"errLevel", 0>>}),
     temperature |->
        [nozzle |-> [value |-> PyFloat(0), target |-> PyFloat(0), max |-> PyFloat(3500)],
         bed |-> [value |-> PyFloat(0), target |-> PyFloat(0), max |-> PyFloat(1200)],
         box |-> [value |-> PyFloat(0), target |-> PyFloat(0), max |-> PyFloat(600)]],
     printProgress |-> PyInt(0),
     printLeftTime |-> PyInt(0),
     printJobTime |-> PyInt(0),
     printFileName |-> PyStr(<<>>),
     deviceState |-> PyNone,
     state |-> PyNone,
     ctrol |->
        [k \in CtrolKeys |-> IF k = "curFeedratePct" THEN PyInt(100) ELSE PyInt(0)],
     boxsInfo |-> PyNone]

Has(r, k) == k \in DOMAIN r

\* int(time.time() * 1000)
Millis(t) == t * 1000

\* The detection of lines 257-258 without the create_task of line 261.
IngestBoxsNoPoller(st, cfs, r) ==
    IF Has(r, "boxsInfo")
    THEN [st |-> [st EXCEPT !.boxsInfo = r["boxsInfo"],
                            !.boxInfoTimeStamp = st.timeStamp],
          cfs |-> IF cfs = "None" THEN "True" ELSE cfs,
          spawn |-> FALSE]
    ELSE [st |-> st, cfs |-> cfs, spawn |-> FALSE]

\* The detection with `is not True` for `is None` in line 257.
IngestBoxsRedetects(st, cfs, r) ==
    IF Has(r, "boxsInfo")
    THEN [st |-> [st EXCEPT !.boxsInfo = r["boxsInfo"],
                            !.boxInfoTimeStamp = st.timeStamp],
          cfs |-> "True",
          spawn |-> (cfs # "True")]
    ELSE [st |-> st, cfs |-> cfs, spawn |-> FALSE]

\* _ingest, lines 253-261: the boxsInfo object, and the CFS detection.
\* [st, cfs, spawn]: spawn says that a _start_cfs_poller task was created.
IngestBoxs(st, cfs, r) ==
    IF Has(r, "boxsInfo")
    THEN [st |-> [st EXCEPT !.boxsInfo = r["boxsInfo"],
                            !.boxInfoTimeStamp = st.timeStamp],
          cfs |-> IF cfs = "None" THEN "True" ELSE cfs,
          spawn |-> (cfs = "None")]
    ELSE [st |-> st, cfs |-> cfs, spawn |-> FALSE]

\* _ingest, lines 266-275: the copies after printProgress.
IngestCopies(st, r) ==
    LET a == IF Has(r, "printLeftTime")
             THEN [st EXCEPT !.printLeftTime = ToInt(Num(r["printLeftTime"], PyInt(0))).v]
             ELSE st
        b == IF Has(r, "printJobTime")
             THEN [a EXCEPT !.printJobTime = ToInt(Num(r["printJobTime"], PyInt(0))).v]
             ELSE a
        c == IF Has(r, "printFileName")
             THEN [b EXCEPT !.printFileName = PyStr(LastComponent(ToStr(r["printFileName"])))]
             ELSE b
        e == IF Has(r, "deviceState")
             THEN [c EXCEPT !.deviceState = r["deviceState"]]
             ELSE c
    IN  IF Has(r, "state") THEN [e EXCEPT !.state = r["state"]] ELSE e

\* _ingest, lines 278-292: the temperatures.
IngestTemps(st, r) ==
    LET Patch(s, k, part, field, default) ==
            IF Has(r, k)
            THEN [s EXCEPT !.temperature[part][field] = Num(r[k], default)]
            ELSE s
        a == Patch(st, "nozzleTemp", "nozzle", "value", PyFloat(0))
        b == Patch(a, "bedTemp0", "bed", "value", PyFloat(0))
        c == Patch(b, "boxTemp", "box", "value", PyFloat(0))
        e == Patch(c, "targetNozzleTemp", "nozzle", "target", PyFloat(0))
        f == Patch(e, "targetBedTemp0", "bed", "target", PyFloat(0))
        g == Patch(f, "maxNozzleTemp", "nozzle", "max", PyFloat(3500))
    IN  Patch(g, "maxBedTemp", "bed", "max", PyFloat(1200))

\* s["ctrol"] replaced by the controls of the message.
IngestCtrolReplaced(st, r) ==
    [st EXCEPT !.ctrol = [k \in CtrolKeys \cap DOMAIN r |-> r[k]]]

\* _ingest, lines 295-306: controls, fans and lights.
IngestCtrol(st, r) ==
    [st EXCEPT !.ctrol = [k \in DOMAIN st.ctrol |->
                             IF Has(r, k) THEN r[k] ELSE st.ctrol[k]]]

\* _ingest, lines 309-310: the error object.
IngestErr(st, r) ==
    IF Has(r, "err") /\ r["err"].t = "dict"
    THEN [st EXCEPT !.err = r["err"]]
    ELSE st

\* _ingest, lines 313-314: the raw fields.
IngestData(st, r) ==
    [st EXCEPT !.data = [k \in DOMAIN st.data \cup DOMAIN r |->
                            IF Has(r, k) THEN r[k] ELSE st.data[k]]]

\* CrealityWS._ingest(r) at time t, for the decoded body of a text frame:
\* [kind |-> "dict", f |-> its items], or a body that is no dict ("other").
\* [st, cfs, spawn, ok]: the state and cfs_supported it leaves, whether it
\* created a _start_cfs_poller task, and ok = FALSE when it raised (the
\* assignments made before the raise stay).
Ingest(st, cfs, body, t) ==
    LET s1 == [st EXCEPT !.timeStamp = Millis(t)]
    IN  IF body.kind # "dict"
        THEN \* "boxsInfo" in r, r["boxsInfo"] or r.items() raises
             [st |-> s1, cfs |-> cfs, spawn |-> FALSE, ok |-> FALSE]
        ELSE
        LET r == body.f
            bx == IngestBoxs(s1, cfs, r)
        IN  IF Has(r, "printProgress") /\ ~ToInt(r["printProgress"]).ok
            THEN \* int(r["printProgress"]) raises
                 [st |-> bx.st, cfs |-> bx.cfs, spawn |-> bx.spawn, ok |-> FALSE]
            ELSE
            LET s3 == IF Has(r, "printProgress")
                      THEN [bx.st EXCEPT !.printProgress = ToInt(r["printProgress"]).v]
                      ELSE bx.st
                s4 == IngestData(IngestErr(IngestCtrol(IngestTemps(
                          IngestCopies(s3, r), r), r), r), r)
            IN  [st |-> s4, cfs |-> bx.cfs, spawn |-> bx.spawn, ok |-> TRUE]


---------------------------------------------------------------------------
(* Inbound message bodies.                                                 *)

Body(f) == [kind |-> "dict", f |-> f]
\* A decoded body that is no dict (a list, a number, a string, null).
OtherBody == [kind |-> "other", f |-> EmptyDict]
NoBody == [kind |-> "none", f |-> EmptyDict]
\* A text that json.loads cannot decode.
BadJson == [kind |-> "undecodable", f |-> EmptyDict]

One(k, v) == [x \in {k} |-> v]

\* The keys whose values _ingest converts to a number.
NumKeys ==
    {"printProgress", "printLeftTime", "printJobTime", "nozzleTemp", "bedTemp0",
     "boxTemp", "targetNozzleTemp", "targetBedTemp0", "maxNozzleTemp", "maxBedTemp"}

\* Values a numeric key is given: an int, a float (21.5), a numeric string,
\* a string that is no number, and null.
NumVals == {PyInt(7), PyFloat(215), PyStr(<<"4", "2">>), PyStr(<<"a">>), PyNone}

\* One key of each conversion (int(x), int(_num(x, 0)), _num(x, 0.0) and
\* _num(x, 350.0)) is given every value of NumVals; the others a float.
RichKeys == {"printProgress", "printLeftTime", "nozzleTemp", "maxNozzleTemp"}

\* A full status frame, as the printer sends after connecting.
FullStatus ==
    [k \in NumKeys \cup CtrolKeys \cup {"printFileName", "deviceState", "state", "err"} |->
        CASE k \in NumKeys -> PyInt(9)
          [] k \in CtrolKeys -> PyInt(1)
          [] k = "printFileName" -> PyStr(<<"/", "a", "/", "b">>)
          [] k = "err" -> PyDict({<<"errcode", 0>>, <<"key", 0>>, <<"errLevel", 0>>})
          [] OTHER -> PyInt(1)]

\* The bodies SpecIngest feeds to _ingest: every one-key message, a full
\* status, a message of two temperatures, and a body that is no dict.
IngestBodies ==
    {Body(One(k, v)) : k \in RichKeys, v \in NumVals}
    \cup {Body(One(k, PyFloat(215))) : k \in NumKeys \ RichKeys}
    \cup {Body(One(k, PyInt(1))) : k \in CtrolKeys \cup {"deviceState", "state", "layer"}}
    \cup {Body(One("printFileName", v)) : v \in {PyStr(<<"/", "a", "/", "b">>), PyInt(7)}}
    \cup {Body(One("boxsInfo", v)) : v \in {PyDict({}), PyNone}}
    \cup {Body(One("err", v)) : v \in {PyDict({<<"errcode", 5>>}), PyInt(1)}}
    \cup {Body(FullStatus),
          Body([k \in {"nozzleTemp", "bedTemp0"} |-> PyFloat(600)]),
          OtherBody}

\* The bodies the receive loop is fed: a status message and a body that is
\* no dict; and with them a boxsInfo message.
StatusBodies ==
    {Body([k \in {"state", "nozzleTemp"} |-> IF k = "state" THEN PyInt(1) ELSE PyFloat(215)]),
     OtherBody}

WireBodies == StatusBodies \cup {Body(One("boxsInfo", PyDict({})))}

\* Messages of several keys, some with a printProgress that int() refuses.
MixedBodies ==
    {Body([k \in {"boxsInfo", "printProgress", "state"} |->
              CASE k = "boxsInfo" -> PyDict({})
                [] k = "printProgress" -> v
                [] OTHER -> PyInt(1)]) : v \in {PyStr(<<"a">>), PyInt(7)}}
    \cup {Body([k \in {"printProgress", "nozzleTemp"} |->
                 IF k = "printProgress" THEN PyNone ELSE PyFloat(215)]),
          Body([k \in {"printLeftTime", "nozzleTemp", "fan"} |->
                 CASE k = "printLeftTime" -> PyStr(<<"a">>)
                   [] k = "nozzleTemp" -> PyFloat(215)
                   [] OTHER -> PyInt(1)]),
          Body([k \in {"state", "fan", "deviceState"} |->
                 IF k = "state" THEN PyInt(2) ELSE PyInt(1)]),
          OtherBody}

\* And with them a text that is no JSON.
FrameBodies == WireBodies \cup {BadJson}

\* CrealityWS(host): the configured host.
Host == "host"

---------------------------------------------------------------------------
(* SpecIngest: _ingest applied to a sequence of bodies.                    *)

InitConn ==
    /\ session = "None"
    /\ task = "None"
    /\ backoffs = 0
    /\ ws = "None"
    /\ receiver = "None"
    /\ sender = "None"
    /\ cfs_probe = [pc |-> "None", attempts |-> 0, polls |-> 0]
    /\ cfs_poller = "None"
    /\ poller_start = FALSE
    /\ out_queue = <<>>
    /\ cancel_req = {}
    /\ pending = {}
    /\ reaping = "None"
    /\ stop = "idle"
    /\ last_ping = 0
    /\ next_seq = 1
    /\ last_sent = 0
    /\ slept = 0
    /\ fail_run = 0
    /\ notify = [called |-> 0, n |-> 0]
    /\ model = "None"
    /\ mac = "None"
    /\ unique_id = Host
    /\ native_value = [key |-> "None", value |-> "None", raised |-> FALSE]
    /\ info = [n |-> 0, status |-> "None"]
    /\ pings = [n |-> 0, ok |-> TRUE]
    /\ pollers = 0

\* CrealityWS.__init__
Init ==
    /\ state = InitState
    /\ cfs_supported = "None"
    /\ now = 0
    /\ last_body = NoBody
    /\ n_ingest = 0
    /\ InitConn

\* _ingest may run with any detection status.
InitIngest ==
    /\ state = InitState
    /\ cfs_supported \in {"None", "True", "False"}
    /\ now = 0
    /\ last_body = NoBody
    /\ n_ingest = 0
    /\ InitConn

\* time.time() advances.
Tick ==
    /\ now < MaxTime
    /\ now' = now + 1
    /\ UNCHANGED <<state, cfs_supported, last_body, n_ingest>>
    /\ UNCHANGED <<conn_vars, entity_vars>>

\* time.time() advances by a second, or by the heartbeat interval.
Elapse ==
    /\ \E d \in {1, HEARTBEAT_SEC} :
          /\ now + d <= MaxClock
          /\ now' = now + d
    /\ UNCHANGED <<state, cfs_supported, last_body, n_ingest>>
    /\ UNCHANGED <<conn_vars, entity_vars>>

\* One call of _ingest (its exception, if any, is the caller's to catch).
IngestStep ==
    /\ n_ingest < MaxIngest
    /\ \E body \in IngestBodies :
          LET res == Ingest(state, cfs_supported, body, now)
          IN  /\ state' = res.st
              /\ cfs_supported' = res.cfs
              /\ poller_start' = (poller_start \/ res.spawn)
              /\ last_body' = body
    /\ n_ingest' = n_ingest + 1
    /\ UNCHANGED <<session, task, backoffs, ws, receiver, sender, cfs_probe,
                   cfs_poller, out_queue, cancel_req, pending, reaping, stop,
                   last_ping, now, next_seq, last_sent, slept, fail_run, notify,
                   pings, pollers>>
    /\ UNCHANGED entity_vars

NextIngest == IngestStep \/ Tick

SpecIngest == InitIngest /\ [][NextIngest]_vars

\* One call of _ingest with a body of Bodies.
IngestCall(Bodies) ==
    /\ n_ingest < MaxIngest
    /\ \E body \in Bodies :
          LET res == Ingest(state, cfs_supported, body, now)
          IN  /\ state' = res.st
              /\ cfs_supported' = res.cfs
              /\ poller_start' = (poller_start \/ res.spawn)
              /\ last_body' = body
    /\ n_ingest' = n_ingest + 1
    /\ UNCHANGED <<session, task, backoffs, ws, receiver, sender, cfs_probe,
                   cfs_poller, out_queue, cancel_req, pending, reaping, stop,
                   last_ping, now, next_seq, last_sent, slept, fail_run, notify,
                   pings, pollers>>
    /\ UNCHANGED entity_vars

\* SpecPartial: _ingest applied to messages of several keys.
NextPartial == IngestCall(MixedBodies) \/ Tick

SpecPartial == InitIngest /\ [][NextPartial]_vars


---------------------------------------------------------------------------
(* SpecStatus: the status text a sensor entity reads from the store.       *)

\* const.py: STATE_MAP, as its (key, value) items.
STATE_MAP ==
    {<<PyNone, "unknown">>,
     <<PyInt(-1), "offline">>,
     <<PyInt(0), "idle">>,
     <<PyInt(1), "printing">>,
     <<PyInt(2), "complete">>,
     <<PyInt(3), "failed">>,
     <<PyInt(4), "abort">>,
     <<PyInt(5), "paused">>,
     <<PyInt(6), "pausing">>,
     <<PyInt(7), "stopping">>,
     <<PyInt(8), "restoring">>}

\* hash(x) is defined: a list and a dict are unhashable.
Hashable(x) == x.t \notin {"list", "dict"}

\* x == y for two hashable values: a float equals the int of its value.
PyEq(x, y) ==
    \/ x = y
    \/ /\ x.t = "int" /\ y.t = "float" /\ y.n = 10 * x.n
    \/ /\ x.t = "float" /\ y.t = "int" /\ x.n = 10 * y.n

\* STATE_MAP.get(x, default): [ok, v]; an unhashable key raises TypeError.
StateMapGet(x, default) ==
    IF ~Hashable(x)
    THEN [ok |-> FALSE, v |-> "TypeError"]
    ELSE LET hits == {e \in STATE_MAP : PyEq(e[1], x)}
         IN  IF hits = {}
             THEN [ok |-> TRUE, v |-> default]
             ELSE [ok |-> TRUE, v |-> (CHOOSE e \in hits : TRUE)[2]]

\* PrinterSensor.native_value of the entity of key "state_text".
StateText(s) ==
    IF ~s.online
    THEN StateMapGet(PyInt(-1), "offline")
    ELSE StateMapGet(s.state, "unknown")

\* The values a message gives to "state": the codes of the map and their
\* neighbours, null, floats, a string, an array and an object.
StateCodes ==
    {PyInt(i) : i \in -2..9}
    \cup {PyNone, PyFloat(10), PyFloat(15), PyStr(<<"1">>), PyList(1), PyDict({})}

StateBodies == {Body(One("state", v)) : v \in StateCodes}

\* The store with either value of online (the runner sets it when it
\* connects and when a connection fails).
InitStatus ==
    /\ \E b \in BOOLEAN : state = [InitState EXCEPT !.online = b]
    /\ cfs_supported = "None"
    /\ now = 0
    /\ last_body = NoBody
    /\ n_ingest = 0
    /\ InitConn

\* Home Assistant reads native_value of the state_text entity.
ReadValue ==
    /\ LET res == StateText(state)
       IN  native_value' = [key |-> "state_text", value |-> res.v, raised |-> ~res.ok]
    /\ UNCHANGED <<state, cfs_supported, now, last_body, n_ingest, conn_vars,
                   model, mac, unique_id, info>>

NextStatus == IngestCall(StateBodies) \/ ReadValue

SpecStatus == InitStatus /\ [][NextStatus]_vars

---------------------------------------------------------------------------
(* The client's tasks.  The listeners are the entities' callbacks; an       *)
(* action that calls them takes the set of listeners that may raise in it   *)
(* (0 stands for "none raises").                                            *)

ingest_obs == <<last_body, n_ingest>>

\* What the connection tasks leave alone.
side_vars == <<ingest_obs, entity_vars, pings, pollers>>

Min(a, b) == IF a < b THEN a ELSE b

WellBehaved == {0}
MayRaise == 0..NumListeners

\* A task that was created and has not finished.
Pending(pc) == pc \in {"new", "recv", "get", "sleep"}
\* `await task` returning whether or not the task has finished.
EndedAtOnce(pc) == TRUE

\* A task that has finished: returned, raised, or was cancelled.
Ended(pc) == pc \in {"done", "failed", "cancelled"}

PcOf(t) ==
    CASE t = "receiver" -> receiver
      [] t = "sender" -> sender
      [] t = "probe" -> cfs_probe.pc
      [] t = "poller" -> cfs_poller
      [] OTHER -> task

\* for cb in self._listeners: cb().  raises = 0: no listener raises;
\* raises = k: listener k raises, and listeners k+1.. are not called.
Notified(prev, raises) ==
    [called |-> IF raises = 0 THEN NumListeners ELSE raises,
     n |-> 1 - prev.n]

\* RECONNECT_BACKOFF[k-1], and RECONNECT_BACKOFF[-1] past the end.
BackoffAt(k) ==
    IF k <= Len(RECONNECT_BACKOFF)
    THEN RECONNECT_BACKOFF[k]
    ELSE RECONNECT_BACKOFF[Len(RECONNECT_BACKOFF)]

\* next(backoffs, RECONNECT_BACKOFF[-1]) on an iterator that has yielded `it`
\* entries: [wait, it].
NextBackoff(it) ==
    [wait |-> BackoffAt(it + 1),
     it |-> IF it < Len(RECONNECT_BACKOFF) THEN it + 1 ELSE it]

\* iter(RECONNECT_BACKOFF)
FreshBackoffs == 0

\* self._out_queue.put_nowait(envelope)
Put(q, method) == Append(q, [method |-> method, seq |-> next_seq])

\* get() taking the newest envelope instead of the oldest.
GetNewest(q) == [env |-> q[Len(q)], rest |-> SubSeq(q, 1, Len(q) - 1)]

\* get() with the envelope put back at the end of the queue.
GetRequeue(q) == [env |-> Head(q), rest |-> Append(Tail(q), Head(q))]

\* await self._out_queue.get(): [env, rest]
Get(q) == [env |-> Head(q), rest |-> Tail(q)]

NumberNext == next_seq' = Min(next_seq + 1, MaxSeq + 1)

\* async_start
AsyncStart ==
    /\ task = "None"
    /\ stop = "idle"
    /\ session' = "open"
    /\ task' = "connect"
    /\ backoffs' = FreshBackoffs
    /\ UNCHANGED <<state, cfs_supported, ws, receiver, sender, cfs_probe,
                   cfs_poller, poller_start, out_queue, cancel_req, pending,
                   reaping, stop, last_ping, now, next_seq, last_sent, slept, fail_run, notify>>
    /\ UNCHANGED side_vars

\* _runner, lines 165-171: the except branch, entered with state st after
\* `fails` failures.  raises: the listener that raises in it (0: none); a
\* raise there leaves the coroutine, and the task ends with it.
RunnerFails(st, fails, raises) ==
    /\ state' = [st EXCEPT !.online = FALSE]
    /\ notify' = Notified(notify, raises)
    /\ fail_run' = Min(fails + 1, Len(RECONNECT_BACKOFF) + 1)
    /\ IF raises # 0
       THEN /\ task' = "crashed"
            /\ slept' = 0
            /\ UNCHANGED backoffs
       ELSE /\ task' = "sleep"
            /\ slept' = NextBackoff(backoffs).wait
            /\ backoffs' = NextBackoff(backoffs).it

\* _runner: ws_connect raises (refused, timed out, bad handshake).
ConnectFails(R) ==
    /\ task = "connect"
    /\ "runner" \notin cancel_req
    /\ \E raises \in R : RunnerFails(state, fail_run, raises)
    /\ UNCHANGED <<cfs_supported, session, ws, receiver, sender, cfs_probe,
                   cfs_poller, poller_start, out_queue, cancel_req, pending,
                   reaping, stop, last_ping, now, next_seq, last_sent>>
    /\ UNCHANGED side_vars

\* _runner, lines 144-160: ws_connect returns (it raises on a closed
\* session); online, the reset of the CFS
\* status, the listeners, then the three tasks and asyncio.wait.
ConnectOk ==
    /\ task = "connect"
    /\ "runner" \notin cancel_req
    /\ session = "open"
    /\ cfs_supported' = "None"
    /\ ws' = "open"
    /\ state' = [state EXCEPT !.online = TRUE]
    /\ notify' = Notified(notify, 0)
    /\ receiver' = "recv"
    /\ last_ping' = now
    /\ sender' = "get"
    /\ cfs_probe' = [pc |-> "new", attempts |-> 0, polls |-> 0]
    /\ task' = "wait"
    /\ fail_run' = 0
    /\ UNCHANGED <<session, backoffs, cfs_poller, poller_start, out_queue,
                   cancel_req, pending, reaping, stop, now, next_seq, last_sent,
                   slept>>
    /\ UNCHANGED side_vars

\* _runner, lines 144-150 and 165-171: ws_connect returns and a listener
\* raises in the notification of line 150: the exception leaves the
\* `async with` (the websocket is closed) for the except branch, which
\* calls the listeners again (`raises`: the one that raises there).
ConnectOkRaises ==
    /\ task = "connect"
    /\ "runner" \notin cancel_req
    /\ session = "open"
    /\ cfs_supported' = "None"
    /\ ws' = "closed"
    /\ \E raises \in MayRaise : RunnerFails(state, 0, raises)
    /\ UNCHANGED <<session, receiver, sender, cfs_probe, cfs_poller,
                   poller_start, out_queue, cancel_req, pending, reaping, stop,
                   last_ping, now, next_seq, last_sent>>
    /\ UNCHANGED side_vars

\* _runner, line 170: asyncio.sleep returns; `continue`.
SleepDone ==
    /\ task = "sleep"
    /\ "runner" \notin cancel_req
    /\ task' = "connect"
    /\ slept' = 0
    /\ UNCHANGED <<state, cfs_supported, session, backoffs, ws, receiver, sender,
                   cfs_probe, cfs_poller, poller_start, out_queue, cancel_req,
                   pending, reaping, stop, last_ping, now, next_seq, last_sent,
                   fail_run, notify>>
    /\ UNCHANGED side_vars

\* asyncio.wait(..., return_when=FIRST_EXCEPTION) returns when a task has
\* raised (a cancelled task does not count) or when all have finished.
WaitOver ==
    \/ receiver = "failed"
    \/ Ended(receiver) /\ Ended(sender) /\ Ended(cfs_probe.pc)

\* _runner, leaving the `async with` and the try without an exception: the
\* websocket is closed, the else branch resets the backoff, the loop connects.
EpochEnds ==
    /\ ws' = "closed"
    /\ backoffs' = FreshBackoffs
    /\ task' = "connect"
    /\ reaping' = "None"
    /\ pending' = {}
    /\ UNCHANGED cancel_req

\* Lines 161-164 without `await task`: every task left is asked to cancel
\* and the epoch ends at once.
ReapFromNoAwait(rest) ==
    /\ cancel_req' = cancel_req \cup {t \in rest : Pending(PcOf(t))}
    /\ ws' = "closed"
    /\ backoffs' = FreshBackoffs
    /\ task' = "connect"
    /\ reaping' = "None"
    /\ pending' = {}

\* _runner, lines 161-164: cancel the next task of `rest` that has not
\* finished and await it; past the last one, the epoch ends.
ReapFrom(rest) ==
    LET live == {t \in rest : Pending(PcOf(t))}
    IN  IF live = {}
        THEN EpochEnds
        ELSE \E x \in live :
                /\ cancel_req' = cancel_req \cup {x}
                /\ reaping' = x
                /\ pending' = live \ {x}
                /\ task' = "reap"
                /\ UNCHANGED <<ws, backoffs>>

\* _runner, lines 158-164: asyncio.wait returns.
WaitReturns ==
    /\ task = "wait"
    /\ "runner" \notin cancel_req
    /\ WaitOver
    /\ ReapFrom({"receiver", "sender", "probe"})
    /\ UNCHANGED <<state, cfs_supported, session, receiver, sender, cfs_probe,
                   cfs_poller, poller_start, out_queue, stop, last_ping, now,
                   next_seq, last_sent, slept, fail_run, notify>>
    /\ UNCHANGED side_vars

\* _runner, line 164: the awaited task has finished.
ReapNext ==
    /\ task = "reap"
    /\ Ended(PcOf(reaping))
    /\ ReapFrom(pending)
    /\ UNCHANGED <<state, cfs_supported, session, receiver, sender, cfs_probe,
                   cfs_poller, poller_start, out_queue, stop, last_ping, now,
                   next_seq, last_sent, slept, fail_run, notify>>
    /\ UNCHANGED side_vars

\* ClientWebSocketResponse.close() called while _recv_loop waits in
\* receive(): the receive is broken with a CLOSING message and `async for`
\* ends before close() returns.
ReceiverAfterClose(pc) == IF pc = "recv" THEN "done" ELSE pc

\* _runner: the CancelledError of async_stop is raised at ws_connect, at
\* asyncio.wait or at asyncio.sleep.  `except Exception` does not catch it;
\* leaving the `async with` closes the websocket.  asyncio.wait does not
\* cancel the tasks it waits for.
RunnerCancelled ==
    /\ "runner" \in cancel_req
    /\ task \in {"connect", "wait", "sleep"}
    /\ cancel_req' = cancel_req \ {"runner"}
    /\ task' = "cancelled"
    /\ slept' = 0
    /\ IF task = "wait"
       THEN /\ ws' = "closed"
            /\ receiver' = ReceiverAfterClose(receiver)
       ELSE UNCHANGED <<ws, receiver>>
    /\ UNCHANGED <<state, cfs_supported, session, backoffs, sender, cfs_probe,
                   cfs_poller, poller_start, out_queue, pending, reaping, stop,
                   last_ping, now, next_seq, last_sent, fail_run,
                   notify>>
    /\ UNCHANGED side_vars

\* The keepalive check with `>=` for `>`.
PingDueAtInterval == now - last_ping >= HEARTBEAT_SEC

\* _recv_loop, lines 221-225: the keepalive check after a frame.
PingDue == now - last_ping > HEARTBEAT_SEC

\* with contextlib.suppress(Exception): await ws.ping(), which goes out
\* (ok) or raises; then last_ping = time.time().
Keepalive ==
    IF PingDue
    THEN /\ \E ok \in BOOLEAN :
               pings' = [n |-> Min(pings.n + 1, MaxPings), ok |-> ok]
         /\ last_ping' = now
    ELSE UNCHANGED <<last_ping, pings>>

\* _recv_loop, lines 212-213: json.loads(msg.data), which raises on a text
\* that is no JSON, then self._ingest(data).
Loaded(st, cfs, body, t) ==
    IF body.kind = "undecodable"
    THEN [st |-> st, cfs |-> cfs, spawn |-> FALSE, ok |-> FALSE]
    ELSE Ingest(st, cfs, body, t)

\* The try of lines 211-217 without its except clause: an exception ends
\* the receive loop.
ReceiverUncaught(raised) == IF raised THEN "failed" ELSE "recv"

\* _recv_loop, lines 211-217: whether or not json.loads, _ingest or a
\* listener raised (the exception is caught and logged), the loop goes on.
ReceiverAfterText(raised) == "recv"

\* _recv_loop: a TEXT frame whose text is a body of Bodies.
RecvText(R, Bodies) ==
    /\ receiver = "recv"
    /\ ws = "open"
    /\ "receiver" \notin cancel_req
    /\ \E body \in Bodies :
          LET res == Loaded(state, cfs_supported, body, now)
          IN  /\ state' = res.st
              /\ cfs_supported' = res.cfs
              /\ poller_start' = (poller_start \/ res.spawn)
              /\ last_body' = body
              /\ IF res.ok
                 THEN \E raises \in R :
                         /\ notify' = Notified(notify, raises)
                         /\ receiver' = ReceiverAfterText(raises # 0)
                 ELSE /\ UNCHANGED notify
                      /\ receiver' = ReceiverAfterText(TRUE)
    /\ Keepalive
    /\ UNCHANGED <<session, task, backoffs, ws, sender, cfs_probe,
                   cfs_poller, out_queue, cancel_req, pending, reaping, stop,
                   now, next_seq, last_sent, slept, fail_run>>
    /\ UNCHANGED <<n_ingest, entity_vars, pollers>>

\* _recv_loop, line 219: an ERROR message (receive() has closed the
\* websocket before it returns one); RuntimeError ends the task.
RecvError ==
    /\ receiver = "recv"
    /\ ws = "open"
    /\ "receiver" \notin cancel_req
    /\ receiver' = "failed"
    /\ ws' = "closed"
    /\ UNCHANGED <<state, cfs_supported, session, task, backoffs, sender,
                   cfs_probe, cfs_poller, poller_start, out_queue, cancel_req,
                   pending, reaping, stop, last_ping, now, next_seq, last_sent,
                   slept, fail_run, notify>>
    /\ UNCHANGED side_vars

\* _recv_loop: the peer closes (CLOSE frame or end of stream): receive()
\* closes the websocket and `async for` ends; the task returns.
RecvClose ==
    /\ receiver = "recv"
    /\ ws = "open"
    /\ "receiver" \notin cancel_req
    /\ receiver' = "done"
    /\ ws' = "closed"
    /\ UNCHANGED <<state, cfs_supported, session, task, backoffs, sender,
                   cfs_probe, cfs_poller, poller_start, out_queue, cancel_req,
                   pending, reaping, stop, last_ping, now, next_seq, last_sent,
                   slept, fail_run, notify>>
    /\ UNCHANGED side_vars

\* _send_loop, lines 229-235: one envelope is taken and written.  A write
\* to an open websocket succeeds or raises (sent); one to a closed websocket
\* raises; the exception is logged and the envelope is gone.  The loop ends
\* when the websocket is closed.
SendStep ==
    /\ sender = "get"
    /\ "sender" \notin cancel_req
    /\ out_queue # <<>>
    /\ out_queue' = Get(out_queue).rest
    /\ \E sent \in BOOLEAN :
          /\ sent => ws = "open"
          /\ IF sent
             THEN last_sent' = Get(out_queue).env.seq
             ELSE UNCHANGED last_sent
    /\ sender' = IF ws = "open" THEN "get" ELSE "done"
    /\ UNCHANGED <<state, cfs_supported, session, task, backoffs, ws, receiver,
                   cfs_probe, cfs_poller, poller_start, cancel_req, pending,
                   reaping, stop, last_ping, now, next_seq, slept, fail_run,
                   notify>>
    /\ UNCHANGED side_vars

\* The while loop of _probe_cfs_support with `<=` for `<`.
ProbeLoopOneMore(attempts) ==
    IF cfs_supported = "None" /\ attempts <= max_attempts
    THEN /\ Len(out_queue) < MaxQueue
         /\ out_queue' = Put(out_queue, "get")
         /\ NumberNext
         /\ cfs_probe' = [pc |-> "sleep", attempts |-> attempts + 1, polls |-> 0]
         /\ UNCHANGED cfs_supported
    ELSE /\ cfs_supported' = IF cfs_supported = "None" THEN "False" ELSE cfs_supported
         /\ cfs_probe' = [pc |-> "done", attempts |-> 0, polls |-> 0]
         /\ UNCHANGED <<out_queue, next_seq>>

\* _probe_cfs_support from the top of its while loop, with `attempts` made:
\* another request and a sleep, or the end of the probe.
ProbeLoop(attempts) ==
    IF cfs_supported = "None" /\ attempts < max_attempts
    THEN /\ Len(out_queue) < MaxQueue
         /\ out_queue' = Put(out_queue, "get")
         /\ NumberNext
         /\ cfs_probe' = [pc |-> "sleep", attempts |-> attempts + 1, polls |-> 0]
         /\ UNCHANGED cfs_supported
    ELSE /\ cfs_supported' = IF cfs_supported = "None" THEN "False" ELSE cfs_supported
         /\ cfs_probe' = [pc |-> "done", attempts |-> 0, polls |-> 0]
         /\ UNCHANGED <<out_queue, next_seq>>

\* _probe_cfs_support: its first step.
ProbeStarts ==
    /\ cfs_probe.pc = "new"
    /\ "probe" \notin cancel_req
    /\ ProbeLoop(0)
    /\ UNCHANGED <<state, session, task, backoffs, ws, receiver, sender,
                   cfs_poller, poller_start, cancel_req, pending, reaping, stop,
                   last_ping, now, last_sent, slept, fail_run, notify>>
    /\ UNCHANGED side_vars

\* _probe_cfs_support, lines 185-190: asyncio.sleep(1) returns.
ProbeWakes ==
    /\ cfs_probe.pc = "sleep"
    /\ "probe" \notin cancel_req
    /\ IF cfs_supported = "True"
       THEN \* break out of the for loop, then out of the while loop
            /\ cfs_probe' = [pc |-> "done", attempts |-> 0, polls |-> 0]
            /\ UNCHANGED <<cfs_supported, out_queue, next_seq>>
       ELSE IF cfs_probe.polls + 1 < ProbePolls
       THEN /\ cfs_probe' = [cfs_probe EXCEPT !.polls = @ + 1]
            /\ UNCHANGED <<cfs_supported, out_queue, next_seq>>
       ELSE ProbeLoop(cfs_probe.attempts)
    /\ UNCHANGED <<state, session, task, backoffs, ws, receiver, sender,
                   cfs_poller, poller_start, cancel_req, pending, reaping, stop,
                   last_ping, now, last_sent, slept, fail_run, notify>>
    /\ UNCHANGED side_vars

\* _start_cfs_poller without the test of line 199.
PollerNeverRunning == FALSE

\* _start_cfs_poller, line 199: self._cfs_poller and not self._cfs_poller.done()
PollerRunning == Pending(cfs_poller)

\* The _start_cfs_poller task that _ingest created runs: it returns when a
\* poller is running, and creates one (held in self._cfs_poller) otherwise.
StartCfsPoller ==
    /\ poller_start
    /\ poller_start' = FALSE
    /\ IF PollerRunning
       THEN UNCHANGED <<cfs_poller, pollers>>
       ELSE /\ cfs_poller' = "sleep"
            /\ pollers' = Min(pollers + 1, MaxPollers)
    /\ UNCHANGED <<state, cfs_supported, session, task, backoffs, ws, receiver,
                   sender, cfs_probe, out_queue, cancel_req, pending, reaping,
                   stop, last_ping, now, next_seq, last_sent, slept,
                   fail_run, notify>>
    /\ UNCHANGED <<ingest_obs, entity_vars, pings>>

\* _start_cfs_poller._loop: asyncio.sleep(20) returns; request_boxs_info.
PollerWakes ==
    /\ cfs_poller = "sleep"
    /\ "poller" \notin cancel_req
    /\ Len(out_queue) < MaxQueue
    /\ out_queue' = Put(out_queue, "get")
    /\ NumberNext
    /\ UNCHANGED <<state, cfs_supported, session, task, backoffs, ws, receiver,
                   sender, cfs_probe, cfs_poller, poller_start, cancel_req,
                   pending, reaping, stop, last_ping, now, last_sent, slept, fail_run, notify>>
    /\ UNCHANGED side_vars

\* The CancelledError of a cancel() is raised in a task other than the
\* runner, at the await where it is suspended; none of them catches it.
TaskCancelled ==
    /\ \E t \in cancel_req \ {"runner"} :
          /\ Pending(PcOf(t))
          /\ cancel_req' = cancel_req \ {t}
          /\ receiver' = IF t = "receiver" THEN "cancelled" ELSE receiver
          /\ sender' = IF t = "sender" THEN "cancelled" ELSE sender
          /\ cfs_probe' = IF t = "probe"
                          THEN [pc |-> "cancelled", attempts |-> 0, polls |-> 0]
                          ELSE cfs_probe
          /\ cfs_poller' = IF t = "poller" THEN "cancelled" ELSE cfs_poller
          /\ pollers' = IF t = "poller" THEN pollers - 1 ELSE pollers
    /\ UNCHANGED <<state, cfs_supported, session, task, backoffs, ws,
                   poller_start, out_queue, pending, reaping, stop, last_ping,
                   now, next_seq, last_sent, slept, fail_run, notify>>
    /\ UNCHANGED <<ingest_obs, entity_vars, pings>>

\* send_cmd, called by a switch entity.
SendCmd ==
    /\ Len(out_queue) < MaxQueue
    /\ out_queue' = Put(out_queue, "set")
    /\ NumberNext
    /\ UNCHANGED <<state, cfs_supported, session, task, backoffs, ws, receiver,
                   sender, cfs_probe, cfs_poller, poller_start, cancel_req,
                   pending, reaping, stop, last_ping, now, last_sent, slept, fail_run, notify>>
    /\ UNCHANGED side_vars

\* async_stop, lines 93-96: close the websocket if open, close the session.
StopCloses ==
    /\ ws' = IF ws = "open" THEN "closed" ELSE ws
    /\ receiver' = IF ws = "open" THEN ReceiverAfterClose(receiver) ELSE receiver
    /\ session' = IF session = "open" THEN "closed" ELSE session

\* `await self._task` left out: async_stop goes on without the runner's end.
RunnerNotAwaited == TRUE

\* `await self._task` in async_stop has a result when the runner has ended.
RunnerEnded == task \in {"cancelled", "crashed"}

\* async_stop, lines 86-92: cancel the probe, the poller and the runner, and
\* await the runner.  A cancel() of the runner while it awaits a task it has
\* cancelled (line 164) is raised inside suppress(CancelledError) and lost.
\* Awaiting a runner that ended with an exception raises it.
AsyncStop ==
    /\ stop = "idle"
    /\ cancel_req' = cancel_req
            \cup {t \in {"probe", "poller"} : Pending(PcOf(t))}
            \cup (IF task \in {"connect", "wait", "sleep"} THEN {"runner"} ELSE {})
    /\ IF task = "None"
       THEN stop' = "returned" /\ StopCloses
       ELSE IF task = "crashed"
       THEN stop' = "raised" /\ UNCHANGED <<ws, receiver, session>>
       ELSE stop' = "await" /\ UNCHANGED <<ws, receiver, session>>
    /\ UNCHANGED <<state, cfs_supported, task, backoffs, sender, cfs_probe,
                   cfs_poller, poller_start, out_queue, pending, reaping,
                   last_ping, now, next_seq, last_sent, slept, fail_run,
                   notify>>
    /\ UNCHANGED side_vars

\* async_stop, lines 92-96: the awaited runner has ended.
StopResumes ==
    /\ stop = "await"
    /\ RunnerEnded
    /\ IF task = "crashed"
       THEN stop' = "raised" /\ UNCHANGED <<ws, receiver, session>>
       ELSE stop' = "returned" /\ StopCloses
    /\ UNCHANGED <<state, cfs_supported, task, backoffs, sender, cfs_probe,
                   cfs_poller, poller_start, out_queue, cancel_req, pending,
                   reaping, last_ping, now, next_seq, last_sent, slept,
                   fail_run, notify>>
    /\ UNCHANGED side_vars

\* The steps the client's own tasks can take without any input: a timer
\* fires, a queued envelope is taken, a cancellation is delivered, an awaited
\* task has finished.
TaskStep ==
    \/ SleepDone
    \/ WaitReturns
    \/ ReapNext
    \/ RunnerCancelled
    \/ SendStep
    \/ ProbeStarts
    \/ ProbeWakes
    \/ StartCfsPoller
    \/ PollerWakes
    \/ TaskCancelled
    \/ StopResumes

\* What GET /info answers for "model" and "mac": a name, an empty string,
\* or no such key (data.get gives None).
InfoModels == {"None", "", "K1", "K1C"}
InfoMacs == {"None", "", "aa", "bb"}

\* x or default, for a str or None
Or(x, default) == IF x \in {"None", ""} THEN default ELSE x

\* async_fetch_info: without a session it returns at once; HTTP 200 stores
\* model and mac and derives unique_id; another status is logged only; an
\* exception (no answer, a timeout, a body that is no JSON object) sets
\* unique_id to the host.
FetchInfo ==
    /\ info.n < MaxFetch
    /\ \/ /\ session = "None"
          /\ info' = [n |-> info.n + 1, status |-> "no session"]
          /\ UNCHANGED <<model, mac, unique_id>>
       \/ /\ session # "None"
          /\ \E md \in InfoModels, mc \in InfoMacs :
                /\ model' = md
                /\ mac' = mc
                /\ unique_id' = Or(mc, Host)
          /\ info' = [n |-> info.n + 1, status |-> "200"]
       \/ /\ session # "None"
          /\ info' = [n |-> info.n + 1, status |-> "other"]
          /\ UNCHANGED <<model, mac, unique_id>>
       \/ /\ session # "None"
          /\ unique_id' = Host
          /\ info' = [n |-> info.n + 1, status |-> "raised"]
          /\ UNCHANGED <<model, mac>>
    /\ UNCHANGED <<state, cfs_supported, now, last_body, n_ingest, conn_vars,
                   native_value>>

\* SpecInfo: async_start and the info fetches.
NextInfo == AsyncStart \/ FetchInfo

SpecInfo == Init /\ [][NextInfo]_vars

\* Every behaviour of the client and its collaborators.
Next ==
    \/ AsyncStart
    \/ ConnectOk
    \/ ConnectOkRaises
    \/ ConnectFails(MayRaise)
    \/ RecvText(MayRaise, WireBodies)
    \/ RecvError
    \/ RecvClose
    \/ SendCmd
    \/ AsyncStop
    \/ TaskStep
    \/ FetchInfo
    \/ ReadValue

Spec == Init /\ [][Next]_vars

---------------------------------------------------------------------------
(* SpecRunner: the connection loop against a printer that refuses, drops   *)
(* and closes connections, with listeners that may raise, and async_stop.  *)

NextRunner ==
    \/ AsyncStart
    \/ ConnectOk
    \/ ConnectOkRaises
    \/ ConnectFails(MayRaise)
    \/ RecvError
    \/ RecvClose
    \/ SleepDone
    \/ WaitReturns
    \/ ReapNext
    \/ SendStep
    \/ ProbeStarts
    \/ ProbeWakes
    \/ TaskCancelled
    \/ AsyncStop
    \/ RunnerCancelled
    \/ StopResumes

SpecRunner == Init /\ [][NextRunner]_vars

(* SpecStop: a printer that sends messages, well-behaved listeners, and    *)
(* async_stop called at any moment.                                        *)

NextStop ==
    \/ AsyncStart
    \/ ConnectOk
    \/ ConnectFails(WellBehaved)
    \/ RecvText(WellBehaved, StatusBodies)
    \/ RecvError
    \/ RecvClose
    \/ SleepDone
    \/ WaitReturns
    \/ ReapNext
    \/ SendStep
    \/ ProbeStarts
    \/ ProbeWakes
    \/ TaskCancelled
    \/ AsyncStop
    \/ RunnerCancelled
    \/ StopResumes

SpecStop == Init /\ [][NextStop]_vars

(* SpecSend: the command queue with its three producers, across            *)
(* reconnects.                                                             *)

NextSend ==
    \/ AsyncStart
    \/ ConnectOk
    \/ RecvText(WellBehaved, WireBodies)
    \/ RecvError
    \/ RecvClose
    \/ WaitReturns
    \/ ReapNext
    \/ SendStep
    \/ ProbeStarts
    \/ ProbeWakes
    \/ StartCfsPoller
    \/ PollerWakes
    \/ TaskCancelled
    \/ SendCmd

SpecSend == Init /\ [][NextSend]_vars

(* SpecRecv: a printer that sends frames of every kind, errors and closes, *)
(* to a client whose listeners may raise.                                  *)

NextRecv ==
    \/ AsyncStart
    \/ ConnectOk
    \/ RecvText(MayRaise, FrameBodies)
    \/ RecvError
    \/ RecvClose
    \/ WaitReturns
    \/ ReapNext
    \/ SendStep
    \/ ProbeStarts
    \/ ProbeWakes
    \/ StartCfsPoller
    \/ PollerWakes
    \/ TaskCancelled

SpecRecv == Init /\ [][NextRecv]_vars

---------------------------------------------------------------------------
(* Reconnection.                                                           *)

\* C1: every backoff sleep lasts the entry of RECONNECT_BACKOFF numbered by
\* the failures since the last established connection (1 for the first
\* failure after a connection was established, the last entry past the end).
C1_BackoffSchedule == task = "sleep" => slept = BackoffAt(fail_run)

\* C2: whenever the runner is about to connect, online is false (the loss of
\* the previous connection has been recorded before the next attempt).
C2_OfflineBeforeReconnect == task = "connect" => ~state.online

\* C3: after the receive loop has ended with an error, the runner reaches
\* the next connection attempt only out of a backoff sleep.
C3_SleepBeforeRetry ==
    [][(receiver = "failed" /\ task # "connect" /\ task' = "connect")
          => task = "sleep"]_vars

\* C4: while the runner waits on an epoch whose receive loop has ended, some
\* task of the client can take a step without any further input, so that
\* the wait can end and a new attempt can start (the states in which the
\* queue is at its bound, where the model holds the producers, are left out).
C4_ReconnectNotStalled ==
    (task = "wait" /\ Ended(receiver) /\ stop = "idle" /\ Len(out_queue) < MaxQueue)
        => ENABLED TaskStep

\* C5: the runner task never ends with an exception.
C5_RunnerAlive == task # "crashed"

---------------------------------------------------------------------------
(* Stop.                                                                   *)

\* C6: after async_stop has returned no task is pending and no poller start
\* is scheduled.
C6_NoTaskAfterStop ==
    stop = "returned" =>
        /\ \A t \in {"runner", "receiver", "sender", "probe", "poller"} :
              ~Pending(PcOf(t)) /\ PcOf(t) \notin {"connect", "wait", "reap"}
        /\ ~poller_start

\* C7: after async_stop has returned no step calls a listener.
C7_NoCallbackAfterStop == [][stop = "returned" => notify' = notify]_vars

\* async_stop has returned on a client that was connected and had notified
\* its listeners of a message, and its leftover send loop is still there.
C7_StoppedAfterNotifications ==
    /\ stop = "returned"
    /\ notify.called = NumListeners
    /\ state.state = PyInt(1)
    /\ receiver = "done"
    /\ sender = "get"

\* C8: once async_stop is over (returned or raised), the websocket is not
\* open and the session is not open.
C8_ClosedAfterStop ==
    stop \in {"returned", "raised"} => (ws # "open" /\ session # "open")

---------------------------------------------------------------------------
(* The command queue.                                                      *)

\* C9: the enqueue numbers of the envelopes written to the websocket never
\* decrease, and the send loop ends only on a closed websocket or by
\* cancellation (a write that fails on an open websocket leaves it taking
\* the next envelope).
C9_FifoOrder ==
    [][/\ last_sent' >= last_sent
       /\ (sender = "get" /\ sender' = "done") => ws = "closed"]_vars

\* Two envelopes were written, the second in a later epoch than the one
\* that started the poller, and a switch command is queued.
C9_SentAcrossReconnect ==
    /\ last_sent = 2
    /\ cfs_poller = "sleep"
    /\ cfs_supported = "None"
    /\ receiver = "recv"
    /\ out_queue # <<>>
    /\ out_queue[1].method = "set"

---------------------------------------------------------------------------
(* Merging.                                                                *)

\* The state fields _ingest copies from the key of the same name.
CopiedKeys ==
    {"printProgress", "printLeftTime", "printJobTime", "printFileName",
     "deviceState", "state", "err"}

\* The key each temperature entry is read from (none for the box target
\* and the box max).
TempKey(part, field) ==
    CASE part = "nozzle" /\ field = "value" -> "nozzleTemp"
      [] part = "bed" /\ field = "value" -> "bedTemp0"
      [] part = "box" /\ field = "value" -> "boxTemp"
      [] part = "nozzle" /\ field = "target" -> "targetNozzleTemp"
      [] part = "bed" /\ field = "target" -> "targetBedTemp0"
      [] part = "nozzle" /\ field = "max" -> "maxNozzleTemp"
      [] part = "bed" /\ field = "max" -> "maxBedTemp"
      [] OTHER -> "-"

TempParts == {"nozzle", "bed", "box"}
TempFields == {"value", "target", "max"}

\* C10: in every _ingest call the time stamp is set, every field whose key
\* the message lacks keeps its value, the eight ctrol keys and the nine
\* temperature entries stay, and a temperature max that no message has
\* carried is its default.
C10_AbsentKeysKeep ==
    [][n_ingest' # n_ingest =>
        LET r == last_body'.f
        IN  /\ state'.timeStamp = Millis(now)
            /\ state'.online = state.online
            /\ \A k \in CopiedKeys : k \notin DOMAIN r => state'[k] = state[k]
            /\ "boxsInfo" \notin DOMAIN r =>
                  /\ state'.boxsInfo = state.boxsInfo
                  /\ state'.boxInfoTimeStamp = state.boxInfoTimeStamp
            /\ DOMAIN state'.ctrol = CtrolKeys
            /\ \A k \in CtrolKeys :
                  k \notin DOMAIN r => state'.ctrol[k] = state.ctrol[k]
            /\ DOMAIN state'.temperature = TempParts
            /\ \A p \in TempParts : DOMAIN state'.temperature[p] = TempFields
            /\ \A p \in TempParts, f \in TempFields :
                  TempKey(p, f) \notin DOMAIN r =>
                      state'.temperature[p][f] = state.temperature[p][f]
            /\ \A p \in TempParts :
                  TempKey(p, "max") \notin DOMAIN state'.data =>
                      state'.temperature[p]["max"] = InitState.temperature[p]["max"]
            /\ DOMAIN state.data \subseteq DOMAIN state'.data
            /\ \A k \in DOMAIN state.data :
                  k \notin DOMAIN r => state'.data[k] = state.data[k]]_vars

\* A one-key message was ingested after a full status: the temperatures,
\* the controls and the maxima the status set are still there.
C10_PartialAfterFull ==
    /\ n_ingest = 2
    /\ DOMAIN last_body.f = {"state"}
    /\ state.temperature.nozzle.value = PyFloat(90)
    /\ state.temperature.bed.max = PyFloat(90)
    /\ state.ctrol["fan"] = PyInt(1)
    /\ state.printProgress = PyInt(9)



---------------------------------------------------------------------------
(* Observers of the state.                                                 *)

\* The keys whose value _ingest stores as it is.
RawKeys == {"boxsInfo", "deviceState", "state"} \cup CtrolKeys

\* The state field a key of RawKeys is stored in.
Field(st, k) == IF k \in CtrolKeys THEN st.ctrol[k] ELSE st[k]

\* C11: after every _ingest call the fields stored from one message either
\* all hold the message's values or all hold their values of before.
C11_AllOrNothing ==
    [][(n_ingest' # n_ingest /\ last_body'.kind = "dict") =>
        LET r == last_body'.f
            K == DOMAIN r \cap RawKeys
        IN  \/ \A k \in K : Field(state', k) = r[k]
            \/ \A k \in K : Field(state', k) = Field(state, k)]_vars

---------------------------------------------------------------------------
(* Listeners.                                                              *)

\* C12: every notification the receive loop makes after a message calls
\* all the registered listeners.
C12_EveryListenerOnce ==
    [][(notify' # notify /\ task' = task /\ receiver = "recv")
          => notify'.called = NumListeners]_vars

\* C13: every notification calls all the registered listeners, whether or
\* not one of them raises, and the runner goes on after it.
C13_RaiseIsolated ==
    [][notify' # notify
          => (notify'.called = NumListeners /\ task' # "crashed")]_vars

---------------------------------------------------------------------------
(* CFS detection.                                                          *)

\* C14: the probe enqueues one boxsInfo request at its start and one after
\* each window of ProbePolls sleeps, at most max_attempts in all; it counts
\* the sleeps of a window one by one; it sets cfs_supported to False only
\* after the window of request max_attempts; it ends only with the status
\* decided; and a poller start is scheduled only by a detection.
C14_ProbeGivesUp ==
    [][/\ (cfs_probe'.pc = "sleep" /\ cfs_probe'.attempts # cfs_probe.attempts) =>
            /\ cfs_supported = "None"
            /\ cfs_probe.pc = "new" \/ cfs_probe.polls = ProbePolls - 1
            /\ cfs_probe'.attempts =
                  (IF cfs_probe.pc = "new" THEN 0 ELSE cfs_probe.attempts) + 1
            /\ cfs_probe'.attempts <= max_attempts
            /\ cfs_probe'.polls = 0
            /\ out_queue' = Append(out_queue, [method |-> "get", seq |-> next_seq])
       /\ (cfs_probe'.pc = "sleep" /\ cfs_probe.pc = "sleep"
              /\ cfs_probe'.attempts = cfs_probe.attempts /\ cfs_probe' # cfs_probe) =>
            /\ cfs_probe'.polls = cfs_probe.polls + 1
            /\ cfs_probe'.polls < ProbePolls
            /\ out_queue' = out_queue
       /\ (cfs_supported' = "False" /\ cfs_supported # "False") =>
            /\ cfs_supported = "None"
            /\ cfs_probe = [pc |-> "sleep", attempts |-> max_attempts,
                            polls |-> ProbePolls - 1]
            /\ cfs_probe'.pc = "done"
            /\ poller_start' = poller_start
            /\ cfs_poller' = cfs_poller
            /\ out_queue' = out_queue
       /\ (cfs_probe'.pc = "done" /\ cfs_probe.pc # "done") => cfs_supported' # "None"
       /\ (poller_start' /\ ~poller_start) =>
            (cfs_supported = "None" /\ cfs_supported' = "True")]_vars

\* The probe has given up in an epoch that is still connected, and no
\* poller exists.
C14_GaveUp ==
    /\ cfs_supported = "False"
    /\ cfs_probe.pc = "done"
    /\ receiver = "recv"
    /\ cfs_poller = "None"
    /\ ~poller_start
    /\ state.boxsInfo = PyNone

\* C15: a boxsInfo message received while cfs_supported is None sets it to
\* True and schedules the poller start in that step; with cfs_supported
\* True the probe's next step ends it without a request; while it is True
\* a poller start is scheduled or a poller runs; a scheduled start leaves a
\* running poller, and a running poller keeps running.
C15_DetectionStartsPoller ==
    [][/\ (last_body' # last_body /\ "boxsInfo" \in DOMAIN last_body'.f
              /\ cfs_supported = "None") =>
            /\ cfs_supported' = "True"
            /\ poller_start'
            /\ state'.boxsInfo = last_body'.f["boxsInfo"]
       /\ (cfs_supported = "True" /\ cfs_probe.pc \in {"new", "sleep"}
              /\ cfs_probe' # cfs_probe) =>
            /\ cfs_probe'.pc \in {"done", "cancelled"}
            /\ out_queue' = out_queue
       /\ cfs_supported' = "True" => (poller_start' \/ cfs_poller' = "sleep")
       /\ (poller_start /\ ~poller_start') => cfs_poller' = "sleep"
       /\ cfs_poller = "sleep" => cfs_poller' = "sleep"]_vars

\* A boxsInfo message has just been ingested during the third attempt of
\* the probe.
C15_DetectedOnThirdAttempt ==
    /\ cfs_supported = "True"
    /\ cfs_probe.pc = "sleep"
    /\ cfs_probe.attempts = 3
    /\ poller_start
    /\ "boxsInfo" \in DOMAIN last_body.f
    /\ cfs_poller = "None"

\* C16: when the runner is about to connect (the connection of the epoch
\* before is torn down), no poller is running.
C16_PollerEndsWithEpoch == task = "connect" => cfs_poller # "sleep"

---------------------------------------------------------------------------
(* Conversions.                                                            *)

\* C17: no _ingest call of a message raises: the call reaches its last
\* statement, which keeps every key of the message in state.data, whatever
\* the values of the numeric fields.
C17_NeverRaises ==
    [][(n_ingest' # n_ingest /\ last_body'.kind = "dict") =>
        /\ DOMAIN last_body'.f \subseteq DOMAIN state'.data
        /\ \A k \in DOMAIN last_body'.f : state'.data[k] = last_body'.f[k]]_vars

---------------------------------------------------------------------------
(* Frames that are no JSON.                                                *)

\* C18: a text frame that json.loads refuses is dropped: the receive loop
\* goes on, the websocket stays open, the runner stays where it is (no
\* reconnect), nothing is stored and no listener is called; and the message
\* that follows it is ingested as any other.
C18_DropKeepsConnection ==
    [][/\ (last_body' = BadJson /\ last_body # BadJson) =>
            /\ receiver' = "recv"
            /\ ws' = "open"
            /\ task' = task
            /\ pending' = pending
            /\ state' = state
            /\ cfs_supported' = cfs_supported
            /\ notify' = notify
       /\ (last_body = BadJson /\ last_body' # last_body /\ last_body'.kind = "dict") =>
            /\ receiver' = "recv"
            /\ ws' = "open"
            /\ task' = task
            /\ \A k \in DOMAIN last_body'.f : state'.data[k] = last_body'.f[k]]_vars

\* An undecodable frame has been dropped after a status message, and the
\* connection is as it was.
C18_Dropped ==
    /\ last_body = BadJson
    /\ receiver = "recv"
    /\ ws = "open"
    /\ task = "wait"
    /\ state.state = PyInt(1)

---------------------------------------------------------------------------
(* The status text.                                                        *)

\* C19: every read of the status text returns "offline" when online is
\* false; when online is true it returns the STATE_MAP entry of the state
\* code, and "unknown" for a code the map does not hold.
C19_StatusText ==
    [][native_value' # native_value =>
        LET code == state.state
            entries == {e \in STATE_MAP : e[1] = code \/ (code.t = "float" /\ e[1] = PyInt(code.n \div 10) /\ code.n % 10 = 0)}
        IN  /\ ~native_value'.raised
            /\ native_value'.value =
                  IF ~state.online THEN "offline"
                  ELSE IF entries = {} THEN "unknown"
                  ELSE (CHOOSE e \in entries : TRUE)[2]]_vars

---------------------------------------------------------------------------
(* Identity.                                                               *)

\* C20: initially and after every sequence of info fetches unique_id is the
\* mac when a mac is known, and the configured host otherwise.
C20_UniqueIdIsMacOrHost ==
    unique_id = IF mac \in {"None", ""} THEN Host ELSE mac

---------------------------------------------------------------------------
(* The end of an epoch.                                                    *)

\* C21: when the runner goes on to the next connection attempt after a task
\* of the epoch has ended with an error, the receive loop, the send loop and
\* the probe have all finished (the ones that were left were cancelled and
\* awaited), no cancellation of them is outstanding, and the websocket of
\* the epoch is closed; and so it is whenever the runner is about to connect.
C21_EpochTornDown ==
    [][/\ (task \in {"wait", "reap"} /\ task' = "connect") =>
            /\ Ended(receiver') /\ Ended(sender') /\ Ended(cfs_probe'.pc)
            /\ cancel_req' \cap {"receiver", "sender", "probe"} = {}
            /\ ws' = "closed"
       /\ task' = "connect" =>
            /\ ~Pending(receiver') /\ ~Pending(sender') /\ ~Pending(cfs_probe'.pc)
            /\ ws' # "open"]_vars

\* The receive loop has raised, the send loop and the probe were cancelled,
\* and the runner is about to connect again.
C21_TornDownAfterError ==
    /\ task = "connect"
    /\ receiver = "failed"
    /\ sender = "cancelled"
    /\ cfs_probe.pc = "cancelled"
    /\ ws = "closed"

---------------------------------------------------------------------------
(* Failed writes.                                                          *)

\* C22: every envelope the send loop takes leaves the queue for good,
\* whether its write succeeds or fails: the queue loses its head and nothing
\* else, what is appended later carries a fresh number, and only the head of
\* the queue is ever written.  A failed write does not end the send loop
\* with an error: it waits for the next envelope while the websocket is
\* open, and returns when the websocket is closed.
C22_FailedWriteDropped ==
    [][/\ (out_queue' # out_queue /\ Len(out_queue') <= Len(out_queue)) =>
            /\ sender = "get"
            /\ out_queue' = Tail(out_queue)
            /\ last_sent' \in {last_sent, Head(out_queue).seq}
            /\ sender' = IF ws = "open" THEN "get" ELSE "done"
       /\ Len(out_queue') > Len(out_queue) =>
            /\ Len(out_queue') = Len(out_queue) + 1
            /\ SubSeq(out_queue', 1, Len(out_queue)) = out_queue
            /\ out_queue'[Len(out_queue')].seq = next_seq
       /\ last_sent' # last_sent =>
            /\ ws = "open"
            /\ out_queue # <<>>
            /\ last_sent' = Head(out_queue).seq
       /\ \A i \in DOMAIN out_queue :
            out_queue[i].seq < next_seq \/ out_queue[i].seq = MaxSeq + 1
       /\ sender' # "failed"]_vars

\* Envelope 1 was taken and its write failed (nothing has ever been
\* written), and the send loop of the open connection waits with envelope 2
\* at the head of the queue.
C22_DroppedAndWaiting ==
    /\ last_sent = 0
    /\ next_seq = 3
    /\ Len(out_queue) = 1
    /\ out_queue[1].seq = 2
    /\ sender = "get"
    /\ receiver = "recv"
    /\ ws = "open"

---------------------------------------------------------------------------
(* The heartbeat.                                                          *)

(* SpecBeat: a printer that sends status messages and errors, with a clock *)
(* that runs past the heartbeat interval, and pings that may fail.  The    *)
(* send loop and the probe wait throughout (nothing is enqueued, and the   *)
(* probe's first step is not scheduled before the epoch ends).             *)

NextBeat ==
    \/ AsyncStart
    \/ ConnectOk
    \/ RecvText(WellBehaved, StatusBodies)
    \/ RecvError
    \/ WaitReturns
    \/ ReapNext
    \/ TaskCancelled
    \/ Elapse

SpecBeat == Init /\ [][NextBeat]_vars

\* A step of the receive loop that has processed a text frame.
FrameProcessed == last_body' # last_body \/ (notify' # notify /\ task' = task)

\* C23: after a processed frame a ping is made exactly when more than
\* HEARTBEAT_SEC seconds have passed since last_ping (the start of the loop
\* or the ping before); a step makes one ping at most; last_ping is set to
\* the time of the ping, and changes at no other moment than a ping and the
\* start of a loop; the receive loop goes on whether the ping went out or
\* raised.
C23_PingWhenDue ==
    [][/\ (FrameProcessed /\ now - last_ping > HEARTBEAT_SEC) =>
            /\ last_ping' = now
            /\ pings'.n = IF pings.n < MaxPings THEN pings.n + 1 ELSE MaxPings
            /\ receiver' = "recv"
            /\ ws' = "open"
       /\ (FrameProcessed /\ now - last_ping <= HEARTBEAT_SEC) =>
            /\ last_ping' = last_ping
            /\ pings' = pings
       /\ pings' # pings =>
            /\ now - last_ping > HEARTBEAT_SEC
            /\ receiver = "recv" /\ receiver' = "recv"
            /\ task' = task
       /\ last_ping' # last_ping =>
            /\ last_ping' = now
            /\ \/ now - last_ping > HEARTBEAT_SEC /\ receiver = "recv"
               \/ task = "connect" /\ task' = "wait"]_vars

\* Two pings were made, eleven seconds apart at least, the second one
\* failed, and the receive loop is still receiving.
C23_SecondPingFailed ==
    /\ pings = [n |-> 2, ok |-> FALSE]
    /\ last_ping = now
    /\ receiver = "recv"
    /\ ws = "open"

\* C24: while the receive loop waits on an open connection and more than
\* HEARTBEAT_SEC seconds have passed since last_ping, the client can make
\* the ping by a step of its own tasks, without a frame from the printer.
C24_PingWithoutFrame ==
    (receiver = "recv" /\ ws = "open" /\ task = "wait"
        /\ now - last_ping > HEARTBEAT_SEC)
        => ENABLED (TaskStep /\ last_ping' # last_ping)

---------------------------------------------------------------------------
(* The error record and the raw fields.                                    *)

\* C25: after every sequence of messages the err record holds the three
\* keys errcode, key and errLevel.
C25_ErrKeepsKeys ==
    {"errcode", "key", "errLevel"} \subseteq {p[1] : p \in state.err.d}

\* C26: the key set of state.data never shrinks; after the ingestion of a
\* message it holds every key of the message with the message's value, and
\* every other key with its value of before.
C26_RawFieldsUnion ==
    [][/\ DOMAIN state.data \subseteq DOMAIN state'.data
       /\ (n_ingest' # n_ingest /\ last_body'.kind = "dict") =>
            LET r == last_body'.f
            IN  /\ \A k \in DOMAIN r :
                      k \in DOMAIN state'.data /\ state'.data[k] = r[k]
                /\ \A k \in DOMAIN state.data \ DOMAIN r :
                      state'.data[k] = state.data[k]]_vars

---------------------------------------------------------------------------
(* Pollers.                                                                *)

\* C27: at most one poller task exists, and it is the one self._cfs_poller
\* holds.
C27_OnePoller ==
    /\ pollers <= 1
    /\ pollers = 1 <=> Pending(cfs_poller)

\* The poller of an earlier epoch runs, and the detection of a new epoch has
\* scheduled another _start_cfs_poller.
C27_SecondDetection ==
    /\ cfs_poller = "sleep"
    /\ pollers = 1
    /\ poller_start
    /\ cfs_supported = "True"

---------------------------------------------------------------------------
(* One receive loop and one send loop.                                     *)

\* C28: a receive loop or a send loop comes into being only when the runner
\* starts an epoch, and at that moment the receive loop and the send loop of
\* the epoch before have finished and no cancellation of them is outstanding.
C28_OneLoopEach ==
    [][/\ (task = "connect" /\ task' = "wait") =>
            /\ ~Pending(receiver) /\ ~Pending(sender)
            /\ cancel_req \cap {"receiver", "sender"} = {}
            /\ receiver' = "recv" /\ sender' = "get"
       /\ (~Pending(receiver) /\ Pending(receiver')) => (task = "connect" /\ task' = "wait")
       /\ (~Pending(sender) /\ Pending(sender')) => (task = "connect" /\ task' = "wait")]_vars

\* The loops of a later epoch run: the connect has reset the CFS status
\* while the poller that an earlier epoch started is still there.
C28_LaterEpochRuns ==
    /\ task = "wait"
    /\ receiver = "recv"
    /\ sender = "get"
    /\ cfs_supported = "None"
    /\ cfs_poller = "sleep"
    /\ last_body.kind = "dict"

---------------------------------------------------------------------------
(* The CFS status of an epoch.                                             *)

\* C29: cfs_supported changes from None to True or to False, and back to
\* None only when the runner connects; False is decided by the probe after
\* its last window only.  A boxsInfo message received with status False is
\* stored, leaves the status False and creates no _start_cfs_poller task.
C29_StatusDecidedOnce ==
    [][/\ cfs_supported' # cfs_supported =>
            \/ cfs_supported = "None" /\ cfs_supported' \in {"True", "False"}
            \/ cfs_supported' = "None" /\ task = "connect" /\ task' # "connect"
       /\ (cfs_supported = "None" /\ cfs_supported' = "False") =>
            /\ cfs_probe.pc = "sleep" /\ cfs_probe.attempts = max_attempts
            /\ cfs_probe'.pc = "done"
       /\ (cfs_supported = "False" /\ last_body' # last_body
              /\ "boxsInfo" \in DOMAIN last_body'.f) =>
            /\ cfs_supported' = "False"
            /\ poller_start' = poller_start
            /\ cfs_poller' = cfs_poller
            /\ state'.boxsInfo = last_body'.f["boxsInfo"]]_vars

\* A boxsInfo message has arrived after the probe gave up: it is stored, the
\* status is False and no poller was ever started.
C29_BoxsInfoAfterUnsupported ==
    /\ cfs_supported = "False"
    /\ "boxsInfo" \in DOMAIN last_body.f
    /\ state.boxsInfo = last_body.f["boxsInfo"]
    /\ cfs_poller = "None"
    /\ ~poller_start
    /\ receiver = "recv"

---------------------------------------------------------------------------
(* Messages whose ingestion fails.                                         *)

\* C30: a decoded message whose ingestion raises leaves the state (its
\* timestamps and raw fields included) and the CFS status as they were,
\* creates no _start_cfs_poller task and is followed by no notification.
C30_FailedIngestDropsAll ==
    [][(/\ last_body' # last_body
        /\ last_body'.kind \in {"dict", "other"}
        /\ ~Ingest(state, cfs_supported, last_body', now).ok) =>
            /\ state' = state
            /\ cfs_supported' = cfs_supported
            /\ poller_start' = poller_start
            /\ notify' = notify]_vars

---------------------------------------------------------------------------
(* Commands enqueued without a connection.                                 *)

\* C31: while no connection is established (not started, connecting, or in
\* a backoff sleep) no envelope leaves the queue, and an envelope leaves the
\* queue only in a step that writes it, or tries to, to an open websocket.
C31_TakenOnlyWhenOpen ==
    [][/\ task \in {"None", "connect", "sleep"} =>
            /\ Len(out_queue') >= Len(out_queue)
            /\ SubSeq(out_queue', 1, Len(out_queue)) = out_queue
       /\ (out_queue' # out_queue /\ Len(out_queue') <= Len(out_queue)) =>
            ws = "open"]_vars

===========================================================================
